---- MODULE Spec2Model ----
(***************************************************************************)
(* APRS_SAGEBOT: the APRS-IS client of src/unnamed/part_003                *)
(* (aprsService.cpp with the connection state machine), driven by setup()  *)
(* and loop() of src/src/main.cpp and the ticker of src/src/taskControl.cpp.*)
(*                                                                         *)
(* Strings are sequences of one-character strings, so that length,         *)
(* indexOf, startsWith and concatenation are computed, not assumed.        *)
(* The millisecond clock millis() advances in steps of MsPerTick and wraps *)
(* at ClockMod (the unsigned long of the code wraps at 2^32).              *)
(* The transport (WiFiClient client) is its connected() flag and the lines *)
(* received and not yet read; a closed transport holds no readable line.   *)
(***************************************************************************)
EXTENDS Integers, Sequences, FiniteSets, TLC

\* ------------------------------------------------------------- bounds
MsPerTick == 400
ClockTicks == 8
MaxInbox == 1
MaxMsgLen == 69
DaysInMonth == 2
MaxPollsPerMinute == 2
MaxCallLen == 11
MaxWidth == 4
maxSize == 4

ClockMod == ClockTicks * MsPerTick

\* ------------------------------------------------- program constants
APRS_TIMEOUT == 2000
TIMEOUT_MS == 1500
MaxBulletinLen == 67
PadCallWidth == 9
MorningHour == 8
EveningHour == 20

APRS_DISCONNECTED == "APRS_DISCONNECTED"
APRS_CONNECTED == "APRS_CONNECTED"
APRS_LOGGED_IN == "APRS_LOGGED_IN"
APRS_VERIFIED == "APRS_VERIFIED"
APRS_State == {APRS_DISCONNECTED, APRS_CONNECTED, APRS_LOGGED_IN, APRS_VERIFIED}

CALLSIGN == <<"W", "4", "K", "R", "L", "-", "2">>
APRS_PASSCODE == <<"9", "0", "9", "2">>
FW_VERSION == <<"2", "5", "0", "0", "6", "1", "0">>
APRS_ID_MESSAGE == <<":">>

\* ------------------------------------------------------------ strings
\* String::indexOf(needle): the first index (from 0) where needle occurs, -1 if none.
IndexOf(hay, needle) ==
  LET n == Len(needle)
      hits == {i \in 0..(Len(hay) - n) : SubSeq(hay, i + 1, i + n) = needle}
  IN  IF hits = {} THEN -1 ELSE CHOOSE i \in hits : \A j \in hits : i <= j

\* String::startsWith(prefix)
StartsWith(s, prefix) ==
  /\ Len(prefix) <= Len(s)
  /\ SubSeq(s, 1, Len(prefix)) = prefix

Spaces(n) == [i \in 1..n |-> " "]

Filler(n) == [i \in 1..n |-> "k"]

StrLogresp == <<"#", " ", "l", "o", "g", "r", "e", "s", "p">>
StrVerified == <<"v", "e", "r", "i", "f", "i", "e", "d">>
StrBLN == <<":", "B", "L", "N">>
StrUnverified == <<"u", "n", "v", "e", "r", "i", "f", "i", "e", "d">>

\* Lines the server can send.
LineVerified == StrLogresp \o <<" ">> \o StrVerified
LineUnverified == StrLogresp \o <<" ">> \o StrUnverified
LineBanner == <<"#", " ", "a", "p", "r", "s", "c">>
LinePacket == <<"W", " ">> \o StrVerified
LineEmpty == <<>>
ServerLines == {LineVerified, LineUnverified, LineBanner, LinePacket, LineEmpty}

\* The first line of a server whose port has no free slot.
LinePortFull == <<"#", " ", "P", "o", "r", "t", " ", "f", "u", "l", "l">>

\* Bulletin texts the text source can supply, and the arguments of the senders.
MsgLens == {0, MaxBulletinLen - 1, MaxBulletinLen, MaxBulletinLen + 1, MaxMsgLen}
Messages == {Filler(n) : n \in MsgLens}
BulletinIDs == {<<"M">>, <<"E">>}
Recipients == {<<"N", "0", "C", "A", "L", "L">>,
               <<"L", "O", "N", "G", "C", "A", "L", "L", "-", "1", "5">>}
MsgIDs == {<<"7">>}

\* ------------------------------------------------------ message formatter
\* APRSformatBulletin(message, ID)
\* Mutant: four spaces, not five, after the bulletin ID.
APRSformatBulletin_FourSpaces(message, ID) ==
  CALLSIGN \o <<">", "A", "P", "R", "S", ",", "T", "C", "P", "I", "P", "*", ":">>
           \o <<":", "B", "L", "N">> \o ID \o <<" ", " ", " ", " ", ":">> \o message

APRSformatBulletin(message, ID) ==
  CALLSIGN \o <<">", "A", "P", "R", "S", ",", "T", "C", "P", "I", "P", "*", ":">>
           \o <<":", "B", "L", "N">> \o ID \o <<" ", " ", " ", " ", " ", ":">> \o message

\* Mutant: "%-9s", padded to 9 and never cut.
APRSpadCall_NoPrecision(callSign) ==
  IF Len(callSign) >= PadCallWidth
  THEN callSign
  ELSE callSign \o Spaces(PadCallWidth - Len(callSign))

\* APRSpadCall(callSign): snprintf "%-9.9s", left-justified, padded or cut to 9.
APRSpadCall(callSign) ==
  IF Len(callSign) >= PadCallWidth
  THEN SubSeq(callSign, 1, PadCallWidth)
  ELSE callSign \o Spaces(PadCallWidth - Len(callSign))

\* Mutant: the recipient is appended as given, without APRSpadCall.
AckLine_Unpadded(recipient, msgID) ==
  CALLSIGN \o <<">", "A", "P", "R", "S", ",", "T", "C", "P", "I", "P", "*", ":">>
           \o APRS_ID_MESSAGE \o recipient \o APRS_ID_MESSAGE
           \o <<"a", "c", "k">> \o msgID

\* The line APRSsendACK builds.
AckLine(recipient, msgID) ==
  CALLSIGN \o <<">", "A", "P", "R", "S", ",", "T", "C", "P", "I", "P", "*", ":">>
           \o APRS_ID_MESSAGE \o APRSpadCall(recipient) \o APRS_ID_MESSAGE
           \o <<"a", "c", "k">> \o msgID

\* ---------------------------------------------------- numeric formatters
\* Numbers are integers in a fixed unit: a value handed to APRSpadder is in
\* tenths, a latitude or longitude in thousandths of a minute.
DigitChars == <<"0", "1", "2", "3", "4", "5", "6", "7", "8", "9">>

\* The decimal digits of n >= 0, as printf %d and %u write them.
RECURSIVE Dec(_)
Dec(n) ==
  IF n < 10 THEN <<DigitChars[n + 1]>> ELSE Dec(n \div 10) \o <<DigitChars[(n % 10) + 1]>>

\* The flag 0 of printf: zeros on the left up to the field width.
ZeroPad(s, width) ==
  IF Len(s) >= width THEN s ELSE [i \in 1..(width - Len(s)) |-> "0"] \o s

\* snprintf(buf, size, ...): at most size - 1 characters are stored.
Snprintf(size, s) ==
  IF Len(s) <= size - 1 THEN s ELSE SubSeq(s, 1, size - 1)

\* printf "%0<width>d"
PrintfZeroPadInt(val, width) ==
  IF val < 0
  THEN <<"-">> \o ZeroPad(Dec(-val), width - 1)
  ELSE ZeroPad(Dec(val), width)

\* round(value), value in tenths: to the nearest integer, halves away from 0.
Round(value) ==
  IF value >= 0 THEN (value + 5) \div 10 ELSE -((5 - value) \div 10)

\* APRSpadder(value, width), for the widths 1..99 whose format "%0<width>d"
\* fits char format[6]: the output is stored in char paddedValue[width + 1].
APRSpadder(value, width) ==
  LET val == Round(value)
  IN  Snprintf(width + 1, PrintfZeroPadInt(val, width))

UnitsPerMinute == 10 * 10 * 10
UnitsPerDegree == 60 * UnitsPerMinute

\* constrain(x, lo, hi)
Constrain(x, lo, hi) ==
  IF x < lo THEN lo ELSE IF x > hi THEN hi ELSE x

\* abs(x)
Abs(x) == IF x < 0 THEN -x ELSE x

\* printf "%05.2f" of minutes given in thousandths: rounded to hundredths,
\* zero-padded to 5 characters. A value half way between two hundredths goes
\* up or down with the binary value of the float: roundUp is that outcome.
PrintfMinutes(minutes, roundUp) ==
  LET h == IF minutes % 10 = 5
           THEN (minutes \div 10) + (IF roundUp THEN 1 ELSE 0)
           ELSE (minutes + 5) \div 10
  IN  ZeroPad(Dec(h \div 100) \o <<".">> \o ZeroPad(Dec(h % 100), 2), 5)

\* Mutant: the minutes are printed with one decimal, "%04.1f".
APRSlocation_OneDecimal(lat, lon, latUp, lonUp) ==
  LET lat1 == Constrain(lat, -90 * UnitsPerDegree, 90 * UnitsPerDegree)
      lon1 == Constrain(lon, -180 * UnitsPerDegree, 180 * UnitsPerDegree)
      latDeg == (Abs(lat1) \div UnitsPerDegree) % 256
      lonDeg == (Abs(lon1) \div UnitsPerDegree) % 256
      latMin == Abs(lat1) - latDeg * UnitsPerDegree
      lonMin == Abs(lon1) - lonDeg * UnitsPerDegree
      one(m) == ZeroPad(Dec(((m + 50) \div 100) \div 10) \o <<".">>
                          \o Dec(((m + 50) \div 100) % 10), 4)
  IN  Snprintf(20, ZeroPad(Dec(latDeg), 2) \o one(latMin)
                     \o <<IF lat1 < 0 THEN "S" ELSE "N">> \o <<"/">>
                     \o ZeroPad(Dec(lonDeg), 3) \o one(lonMin)
                     \o <<IF lon1 < 0 THEN "W" ELSE "E">>)

\* APRSlocation(lat, lon): snprintf "%02u%05.2f%.1s/%03u%05.2f%.1s" into
\* char buf[20]; the degrees are uint8_t.
APRSlocation(lat, lon, latUp, lonUp) ==
  LET lat1 == Constrain(lat, -90 * UnitsPerDegree, 90 * UnitsPerDegree)
      lon1 == Constrain(lon, -180 * UnitsPerDegree, 180 * UnitsPerDegree)
      latID == IF lat1 < 0 THEN "S" ELSE "N"
      lonID == IF lon1 < 0 THEN "W" ELSE "E"
      latDeg == (Abs(lat1) \div UnitsPerDegree) % 256
      lonDeg == (Abs(lon1) \div UnitsPerDegree) % 256
      latMin == Abs(lat1) - latDeg * UnitsPerDegree
      lonMin == Abs(lon1) - lonDeg * UnitsPerDegree
  IN  Snprintf(20, ZeroPad(Dec(latDeg), 2) \o PrintfMinutes(latMin, latUp)
                     \o <<latID>> \o <<"/">>
                     \o ZeroPad(Dec(lonDeg), 3) \o PrintfMinutes(lonMin, lonUp)
                     \o <<lonID>>)

\* The line performAPRSLogon builds. APRS_SOFTWARE_NAME and APRS_FILTER are
\* declared in credentials.h and defined nowhere in the sources at hand.
APRS_SOFTWARE_NAME == <<"I", "D">>
APRS_FILTER == <<"b", "/", "W", "4", "K", "R", "L", "-", "2", "*">>
LogonLine ==
  <<"u", "s", "e", "r", " ">> \o CALLSIGN
    \o <<" ", "p", "a", "s", "s", " ">> \o APRS_PASSCODE
    \o <<" ", "v", "e", "r", " ">> \o APRS_SOFTWARE_NAME \o <<" ">> \o FW_VERSION
    \o <<" ", "f", "i", "l", "t", "e", "r", " ">> \o APRS_FILTER

\* ------------------------------------------------------------- senders
\* Each sender is the sequence of lines it puts on the transport, given
\* client.connected().

\* client.println(line): a client that is not connected sends nothing.
clientPrintln(conn, line) ==
  IF conn THEN <<line>> ELSE <<>>

\* postToAPRS(message)
postToAPRS(conn, message) ==
  IF conn THEN clientPrintln(conn, message) ELSE <<>>

\* Mutant: an oversized message is cut to 67 characters and sent.
APRSsendBulletin_Truncates(conn, message, ID) ==
  IF Len(message) > MaxBulletinLen
  THEN postToAPRS(conn, APRSformatBulletin(SubSeq(message, 1, MaxBulletinLen), ID))
  ELSE postToAPRS(conn, APRSformatBulletin(message, ID))

\* Mutant: the size test is off by one and rejects a message of 67 characters.
APRSsendBulletin_OffByOne(conn, message, ID) ==
  IF Len(message) >= MaxBulletinLen
  THEN <<>>
  ELSE postToAPRS(conn, APRSformatBulletin(message, ID))

\* APRSsendBulletin(message, ID)
APRSsendBulletin(conn, message, ID) ==
  IF Len(message) > MaxBulletinLen
  THEN <<>>
  ELSE postToAPRS(conn, APRSformatBulletin(message, ID))

\* APRSsendACK(recipient, msgID): client.println with no check at all.
APRSsendACK(conn, recipient, msgID) ==
  clientPrintln(conn, AckLine(recipient, msgID))

\* ------------------------------------------------------- packet reader
\* Mutant: the timeout test compares millis() itself with TIMEOUT_MS.
readAPRSPacket_ElapsedFromBoot(conn, rx, stamp, t) ==
  IF ~conn
  THEN [ok |-> FALSE, packet |-> <<>>, conn |-> conn, rx |-> rx, stamp |-> stamp]
  ELSE IF Len(rx) > 0
  THEN [ok |-> Len(Head(rx)) > 0, packet |-> Head(rx), conn |-> conn,
        rx |-> Tail(rx), stamp |-> 0]
  ELSE IF stamp = 0
  THEN [ok |-> FALSE, packet |-> <<>>, conn |-> conn, rx |-> rx, stamp |-> t]
  ELSE IF t > TIMEOUT_MS
  THEN [ok |-> FALSE, packet |-> <<>>, conn |-> FALSE, rx |-> <<>>, stamp |-> 0]
  ELSE [ok |-> FALSE, packet |-> <<>>, conn |-> conn, rx |-> rx, stamp |-> stamp]

\* Mutant: a line that is read leaves the idle timer running.
readAPRSPacket_KeepsTimerOnRead(conn, rx, stamp, t) ==
  IF ~conn
  THEN [ok |-> FALSE, packet |-> <<>>, conn |-> conn, rx |-> rx, stamp |-> stamp]
  ELSE IF Len(rx) > 0
  THEN [ok |-> Len(Head(rx)) > 0, packet |-> Head(rx), conn |-> conn,
        rx |-> Tail(rx), stamp |-> stamp]
  ELSE IF stamp = 0
  THEN [ok |-> FALSE, packet |-> <<>>, conn |-> conn, rx |-> rx, stamp |-> t]
  ELSE IF (t - stamp) % ClockMod > TIMEOUT_MS
  THEN [ok |-> FALSE, packet |-> <<>>, conn |-> FALSE, rx |-> <<>>, stamp |-> 0]
  ELSE [ok |-> FALSE, packet |-> <<>>, conn |-> conn, rx |-> rx, stamp |-> stamp]

\* Mutant: a call on a transport that is not connected clears the idle timer.
readAPRSPacket_ClearsTimerUnconnected(conn, rx, stamp, t) ==
  IF ~conn
  THEN [ok |-> FALSE, packet |-> <<>>, conn |-> conn, rx |-> rx, stamp |-> 0]
  ELSE IF Len(rx) > 0
  THEN [ok |-> Len(Head(rx)) > 0, packet |-> Head(rx), conn |-> conn,
        rx |-> Tail(rx), stamp |-> 0]
  ELSE IF stamp = 0
  THEN [ok |-> FALSE, packet |-> <<>>, conn |-> conn, rx |-> rx, stamp |-> t]
  ELSE IF (t - stamp) % ClockMod > TIMEOUT_MS
  THEN [ok |-> FALSE, packet |-> <<>>, conn |-> FALSE, rx |-> <<>>, stamp |-> 0]
  ELSE [ok |-> FALSE, packet |-> <<>>, conn |-> conn, rx |-> rx, stamp |-> stamp]

\* readAPRSPacket(packet): the result, the packet, and the transport and the
\* static timeoutStamp as the call leaves them. t is millis().
readAPRSPacket(conn, rx, stamp, t) ==
  IF ~conn
  THEN [ok |-> FALSE, packet |-> <<>>, conn |-> conn, rx |-> rx, stamp |-> stamp]
  ELSE IF Len(rx) > 0
  THEN [ok |-> Len(Head(rx)) > 0, packet |-> Head(rx), conn |-> conn,
        rx |-> Tail(rx), stamp |-> 0]
  ELSE IF stamp = 0
  THEN [ok |-> FALSE, packet |-> <<>>, conn |-> conn, rx |-> rx, stamp |-> t]
  ELSE IF (t - stamp) % ClockMod > TIMEOUT_MS
  THEN [ok |-> FALSE, packet |-> <<>>, conn |-> FALSE, rx |-> <<>>, stamp |-> 0]
  ELSE [ok |-> FALSE, packet |-> <<>>, conn |-> conn, rx |-> rx, stamp |-> stamp]

\* The while (readAPRSPacket(packet)) loop of pollAPRS: the last, failed, read.
RECURSIVE ReadWhileOk(_, _, _, _)
ReadWhileOk(conn, rx, stamp, t) ==
  LET r == readAPRSPacket(conn, rx, stamp, t)
  IN  IF r.ok THEN ReadWhileOk(r.conn, r.rx, r.stamp, t) ELSE r

\* One call of readAPRSPacket: the transport, the timer and millis() at the
\* call, and what the call returned and left behind.
ReadCall(conn, rx, stamp, t, r) ==
  [conn |-> conn, rx |-> rx, stamp |-> stamp, t |-> t, res |-> r]

\* The calls of readAPRSPacket made by the loop of pollAPRS, in order.
RECURSIVE ReadCalls(_, _, _, _)
ReadCalls(conn, rx, stamp, t) ==
  LET r == readAPRSPacket(conn, rx, stamp, t)
  IN  <<ReadCall(conn, rx, stamp, t, r)>> \o
      (IF r.ok THEN ReadCalls(r.conn, r.rx, r.stamp, t) ELSE <<>>)

\* The calls of readAPRSPacket made by pollAPRS(): none outside APRS_VERIFIED.
pollReads(state, conn, rx, stamp, t) ==
  IF state # APRS_VERIFIED THEN <<>> ELSE ReadCalls(conn, rx, stamp, t)

\* Mutant: pollAPRS without its connection watchdog.
pollAPRS_NoWatchdog(state, conn, rx, stamp, t) ==
  IF state # APRS_VERIFIED
  THEN [state |-> state, conn |-> conn, rx |-> rx, stamp |-> stamp]
  ELSE LET r == ReadWhileOk(conn, rx, stamp, t)
       IN  [state |-> state, conn |-> r.conn, rx |-> r.rx, stamp |-> r.stamp]

\* Mutant: pollAPRS takes a read that returns nothing for a lost connection.
pollAPRS_DropsOnNoData(state, conn, rx, stamp, t) ==
  IF state # APRS_VERIFIED
  THEN [state |-> state, conn |-> conn, rx |-> rx, stamp |-> stamp]
  ELSE LET r == ReadWhileOk(conn, rx, stamp, t)
       IN  [state |-> IF ~r.ok THEN APRS_DISCONNECTED ELSE state,
            conn |-> r.conn, rx |-> r.rx, stamp |-> r.stamp]

\* Mutant: pollAPRS returns early in APRS_DISCONNECTED only.
pollAPRS_SkipsDisconnectedOnly(state, conn, rx, stamp, t) ==
  IF state = APRS_DISCONNECTED
  THEN [state |-> state, conn |-> conn, rx |-> rx, stamp |-> stamp]
  ELSE LET r == ReadWhileOk(conn, rx, stamp, t)
       IN  [state |-> IF ~r.conn THEN APRS_DISCONNECTED ELSE state,
            conn |-> r.conn, rx |-> r.rx, stamp |-> r.stamp]

\* pollAPRS(): the state, the transport and the timer as the call leaves them.
pollAPRS(state, conn, rx, stamp, t) ==
  IF state # APRS_VERIFIED
  THEN [state |-> state, conn |-> conn, rx |-> rx, stamp |-> stamp]
  ELSE LET r == ReadWhileOk(conn, rx, stamp, t)
       IN  [state |-> IF ~r.conn THEN APRS_DISCONNECTED ELSE state,
            conn |-> r.conn, rx |-> r.rx, stamp |-> r.stamp]

\* ------------------------------------------------------ logon handshake
\* Mutant: the test for "unverified" is left out of the success branch.
verifyLogonStatus_NoUnverifiedTest(ok, response) ==
  IF ok /\ StartsWith(response, StrLogresp)
  THEN IF IndexOf(response, StrVerified) # -1
       THEN "verified"
       ELSE "continue"
  ELSE "continue"

\* Mutant: any line is taken for the login response, as logonToAPRS did.
verifyLogonStatus_NoPrefixTest(ok, response) ==
  IF ok
  THEN IF IndexOf(response, StrVerified) # -1 /\ IndexOf(response, StrUnverified) = -1
       THEN "verified"
       ELSE IF IndexOf(response, StrUnverified) # -1
       THEN "unverified"
       ELSE "continue"
  ELSE "continue"

\* One pass of the loop body of verifyLogonStatus on the outcome of its read:
\* "verified" (return true), "unverified" (return false) or "continue".
verifyLogonStatus(ok, response) ==
  IF ok /\ StartsWith(response, StrLogresp)
  THEN IF IndexOf(response, StrVerified) # -1 /\ IndexOf(response, StrUnverified) = -1
       THEN "verified"
       ELSE IF IndexOf(response, StrUnverified) # -1
       THEN "unverified"
       ELSE "continue"
  ELSE "continue"

\* while (millis() < timeout)
VerifyWindowOpen(t, timeout) == t < timeout

\* Mutant: connectToAPRS connects without testing client.connected().
connectToAPRS_AlwaysConnects(conn, accept) ==
  [ret |-> accept, conn |-> accept, tried |-> TRUE]

\* connectToAPRS(): accept is whether the server accepts a TCP connect.
connectToAPRS(conn, accept) ==
  IF conn
  THEN [ret |-> TRUE, conn |-> TRUE, tried |-> FALSE]
  ELSE [ret |-> accept, conn |-> accept, tried |-> TRUE]

\* updateAPRS(), case APRS_DISCONNECTED: connectToAPRS() is called and its
\* result is dropped.
updateDisconnected(state, connectRet) == state

\* if (verifyLogonStatus()) aprsState = APRS_VERIFIED; in updateAPRS and in
\* connectToAPRSserver. Nothing is assigned when it returns false.
afterVerify(state, verified) ==
  IF verified THEN APRS_VERIFIED ELSE state

\* ------------------------------------------------------ bulletin scheduler
\* Mutant: the day-change reset clears amBulletinSent only.
processBulletins_ClearsMorningOnly(h, m, d, am, pm, ld) ==
  LET fireAM == h = MorningHour /\ m = 0 /\ ~am
      firePM == h = EveningHour /\ m = 0 /\ ~pm
      am1 == IF fireAM THEN TRUE ELSE am
      pm1 == IF firePM THEN TRUE ELSE pm
  IN  IF d # ld
      THEN [fireAM |-> fireAM, firePM |-> firePM, am |-> FALSE, pm |-> pm1, lastDay |-> d]
      ELSE [fireAM |-> fireAM, firePM |-> firePM, am |-> am1, pm |-> pm1, lastDay |-> ld]

\* Mutant: the fire checks leave out the test of the minute.
processBulletins_AnyMinute(h, m, d, am, pm, ld) ==
  LET fireAM == h = MorningHour /\ ~am
      firePM == h = EveningHour /\ ~pm
      am1 == IF fireAM THEN TRUE ELSE am
      pm1 == IF firePM THEN TRUE ELSE pm
  IN  IF d # ld
      THEN [fireAM |-> fireAM, firePM |-> firePM, am |-> FALSE, pm |-> FALSE, lastDay |-> d]
      ELSE [fireAM |-> fireAM, firePM |-> firePM, am |-> am1, pm |-> pm1, lastDay |-> ld]

\* Mutant: the flags are never cleared on a day change.
processBulletins_NoReset(h, m, d, am, pm, ld) ==
  LET fireAM == h = MorningHour /\ m = 0 /\ ~am
      firePM == h = EveningHour /\ m = 0 /\ ~pm
  IN  [fireAM |-> fireAM, firePM |-> firePM,
       am |-> IF fireAM THEN TRUE ELSE am,
       pm |-> IF firePM THEN TRUE ELSE pm,
       lastDay |-> d]

\* Mutant: the day-change reset runs before the fire checks.
processBulletins_ResetBeforeFire(h, m, d, am, pm, ld) ==
  LET am0 == IF d # ld THEN FALSE ELSE am
      pm0 == IF d # ld THEN FALSE ELSE pm
      fireAM == h = MorningHour /\ m = 0 /\ ~am0
      firePM == h = EveningHour /\ m = 0 /\ ~pm0
  IN  [fireAM |-> fireAM, firePM |-> firePM,
       am |-> IF fireAM THEN TRUE ELSE am0,
       pm |-> IF firePM THEN TRUE ELSE pm0,
       lastDay |-> d]

\* processBulletins() on the observed hour, minute and day: which requests it
\* emits and the flags and lastDay as it leaves them.
processBulletins(h, m, d, am, pm, ld) ==
  LET fireAM == h = MorningHour /\ m = 0 /\ ~am
      firePM == h = EveningHour /\ m = 0 /\ ~pm
      am1 == IF fireAM THEN TRUE ELSE am
      pm1 == IF firePM THEN TRUE ELSE pm
  IN  IF d # ld
      THEN [fireAM |-> fireAM, firePM |-> firePM, am |-> FALSE, pm |-> FALSE, lastDay |-> d]
      ELSE [fireAM |-> fireAM, firePM |-> firePM, am |-> am1, pm |-> pm1, lastDay |-> ld]

\* ---------------------------------------------------------------- state
VARIABLES
  aprsState,        \* APRS_State aprsState
  clientConnected,  \* client.connected()
  clientRx,         \* lines received by client and not yet read
  loginPending,     \* the server holds a login line it has not answered
  timeoutStamp,     \* static unsigned long timeoutStamp of readAPRSPacket
  now,              \* millis()
  pc,               \* "setup": before setup(); "idle": between two calls of
                    \* loop(); "verify": inside the loop of verifyLogonStatus
  timeout,          \* the local timeout of verifyLogonStatus
  call,             \* the operation in progress while pc = "verify"
  ret,              \* the operation that has just returned, NoOp otherwise
  rd,               \* the calls of readAPRSPacket made by the last step
  amBulletinSent,   \* bool amBulletinSent
  pmBulletinSent,   \* bool pmBulletinSent
  lastDay,          \* static int lastDay of processBulletins
  hour,             \* myTZ.hour()
  minute,           \* myTZ.minute()
  day,              \* myTZ.day()
  pollsThisMinute,  \* processBulletins polls made in the current minute
  amEmitted,        \* morning requests emitted on the current calendar day
  pmEmitted,        \* evening requests emitted on the current calendar day
  amDropped,        \* a morning request of the current calendar day wrote nothing
  pmDropped,        \* an evening request of the current calendar day wrote nothing
  fmt               \* the call of a formatter made by the last step, NoFmt otherwise

connVars == <<aprsState, clientConnected, clientRx, loginPending, timeoutStamp>>
ctlVars == <<pc, timeout, call>>
schedVars == <<amBulletinSent, pmBulletinSent, lastDay>>
calVars == <<hour, minute, day, pollsThisMinute, amEmitted, pmEmitted, amDropped, pmDropped>>
vars == <<connVars, now, ctlVars, ret, rd, schedVars, calVars, fmt>>

\* A call of a formatter: its name, its arguments and the string it returned.
Fmt(fn, args, out) == [fn |-> fn, args |-> args, out |-> out]

NoFmt == Fmt("none", <<>>, <<>>)

\* What is recorded of an operation: its name, aprsState and
\* client.connected() at the call, how its TCP connect went ("none": no connect
\* was issued), how its verification ended ("none": none was run), whether a
\* verified login response was read, its argument, and the lines it put on the
\* transport; id is the bulletin ID or the message ID of a sender, set by the
\* sender.
Op(name, pre, preConn, connect, verify, sawVerified, arg, wrote) ==
  [op |-> name, pre |-> pre, preConn |-> preConn, connect |-> connect,
   verify |-> verify, sawVerified |-> sawVerified, arg |-> arg, wrote |-> wrote,
   id |-> <<>>]

NoOp == Op("none", APRS_DISCONNECTED, FALSE, "none", "none", FALSE, <<>>, <<>>)

\* A login-response line that verifies the login.
IsVerifiedResponse(line) ==
  /\ StartsWith(line, StrLogresp)
  /\ IndexOf(line, StrVerified) # -1
  /\ IndexOf(line, StrUnverified) = -1

ConnectOutcome(c) ==
  IF ~c.tried THEN "none" ELSE IF c.ret THEN "ok" ELSE "failed"

Init ==
  /\ aprsState = APRS_DISCONNECTED
  /\ clientConnected = FALSE
  /\ clientRx = <<>>
  /\ loginPending = FALSE
  /\ timeoutStamp = 0
  /\ now = 0
  /\ pc = "setup"
  /\ timeout = 0
  /\ call = NoOp
  /\ ret = NoOp
  /\ rd = <<>>
  /\ fmt = NoFmt
  /\ amBulletinSent = FALSE
  /\ pmBulletinSent = FALSE
  /\ lastDay = -1
  /\ hour = 0
  /\ minute = 0
  /\ day = 1
  /\ pollsThisMinute = 0
  /\ amEmitted = 0
  /\ pmEmitted = 0
  /\ amDropped = FALSE
  /\ pmDropped = FALSE

\* ------------------------------------------------------- the environment
\* The millisecond clock advances.
Tick ==
  /\ now' = (now + MsPerTick) % ClockMod
  /\ ret' = NoOp
  /\ rd' = <<>>
  /\ UNCHANGED <<connVars, ctlVars, schedVars, calVars, fmt>>

\* The server sends a line.
ServerSend ==
  /\ clientConnected
  /\ Len(clientRx) < MaxInbox
  /\ \E line \in ServerLines :
       /\ clientRx' = Append(clientRx, line)
       /\ loginPending' = (loginPending /\ ~StartsWith(line, StrLogresp))
  /\ ret' = NoOp
  /\ rd' = <<>>
  /\ UNCHANGED <<aprsState, clientConnected, timeoutStamp, now, ctlVars, schedVars, calVars, fmt>>

\* The remote side closes the connection.
RemoteClose ==
  /\ clientConnected
  /\ clientConnected' = FALSE
  /\ clientRx' = <<>>
  /\ loginPending' = FALSE
  /\ ret' = NoOp
  /\ rd' = <<>>
  /\ UNCHANGED <<aprsState, timeoutStamp, now, ctlVars, schedVars, calVars, fmt>>

\* ------------------------------------------------- connection operations
\* setup(): connectToAPRSserver(), up to the loop of verifyLogonStatus.
ConnectToAPRSserver(accept) ==
  /\ pc = "setup"
  /\ LET c == connectToAPRS(clientConnected, accept)
         o == Op("connectToAPRSserver", aprsState, clientConnected,
                 ConnectOutcome(c), "none", FALSE, <<>>, <<>>)
     IN  /\ clientConnected' = c.conn
         /\ clientRx' = IF c.tried THEN <<>> ELSE clientRx
         /\ IF c.ret
            THEN /\ aprsState' = APRS_CONNECTED
                 /\ loginPending' = TRUE
                 /\ pc' = "verify"
                 /\ timeout' = (now + APRS_TIMEOUT) % ClockMod
                 /\ call' = [o EXCEPT !.wrote = clientPrintln(c.conn, LogonLine)]
                 /\ ret' = NoOp
            ELSE /\ pc' = "idle"
                 /\ ret' = o
                 /\ UNCHANGED <<aprsState, loginPending, timeout, call>>
  /\ rd' = <<>>
  /\ UNCHANGED <<timeoutStamp, now, schedVars, calVars, fmt>>

\* loop(): updateAPRS(), up to the loop of verifyLogonStatus when it runs one.
UpdateAPRS(accept) ==
  /\ pc = "idle"
  /\ LET o == Op("updateAPRS", aprsState, clientConnected, "none", "none", FALSE, <<>>, <<>>)
     IN  \/ /\ aprsState = APRS_DISCONNECTED
            /\ LET c == connectToAPRS(clientConnected, accept)
               IN  /\ clientConnected' = c.conn
                   /\ clientRx' = IF c.tried THEN <<>> ELSE clientRx
                   /\ aprsState' = updateDisconnected(aprsState, c.ret)
                   /\ ret' = [o EXCEPT !.connect = ConnectOutcome(c)]
            /\ rd' = <<>>
            /\ UNCHANGED <<loginPending, timeoutStamp, now, ctlVars>>
         \/ /\ aprsState \in {APRS_CONNECTED, APRS_LOGGED_IN}
            /\ pc' = "verify"
            /\ timeout' = (now + APRS_TIMEOUT) % ClockMod
            /\ call' = o
            /\ ret' = NoOp
            /\ rd' = <<>>
            /\ UNCHANGED <<connVars, now>>
         \/ /\ aprsState = APRS_VERIFIED
            /\ LET p == pollAPRS(aprsState, clientConnected, clientRx, timeoutStamp, now)
               IN  /\ aprsState' = p.state
                   /\ clientConnected' = p.conn
                   /\ clientRx' = p.rx
                   /\ timeoutStamp' = p.stamp
                   /\ loginPending' = (loginPending /\ p.conn)
            /\ ret' = o
            /\ rd' = pollReads(aprsState, clientConnected, clientRx, timeoutStamp, now)
            /\ UNCHANGED <<now, ctlVars>>
  /\ UNCHANGED <<schedVars, calVars, fmt>>

\* loop(): updateTasks(), when tmrAPRSticker is due: pollAPRS().
TickerPollAPRS ==
  /\ pc = "idle"
  /\ LET p == pollAPRS(aprsState, clientConnected, clientRx, timeoutStamp, now)
     IN  /\ aprsState' = p.state
         /\ clientConnected' = p.conn
         /\ clientRx' = p.rx
         /\ timeoutStamp' = p.stamp
         /\ loginPending' = (loginPending /\ p.conn)
  /\ ret' = Op("pollAPRS", aprsState, clientConnected, "none", "none", FALSE, <<>>, <<>>)
  /\ rd' = pollReads(aprsState, clientConnected, clientRx, timeoutStamp, now)
  /\ UNCHANGED <<now, ctlVars, schedVars, calVars, fmt>>

\* verifyLogonStatus returns: its caller assigns aprsState and returns too.
VerifyReturn(result, sawVerified) ==
  /\ aprsState' = afterVerify(aprsState, result = "verified")
  /\ pc' = "idle"
  /\ timeout' = 0
  /\ call' = NoOp
  /\ ret' = [call EXCEPT !.verify = result, !.sawVerified = sawVerified]

\* One pass of the loop of verifyLogonStatus.
VerifyLogonStatusPoll ==
  /\ pc = "verify"
  /\ VerifyWindowOpen(now, timeout)
  /\ LET r == readAPRSPacket(clientConnected, clientRx, timeoutStamp, now)
         d == verifyLogonStatus(r.ok, r.packet)
         saw == call.sawVerified \/ (r.ok /\ IsVerifiedResponse(r.packet))
     IN  /\ clientConnected' = r.conn
         /\ clientRx' = r.rx
         /\ timeoutStamp' = r.stamp
         /\ loginPending' = (loginPending /\ r.conn)
         /\ rd' = <<ReadCall(clientConnected, clientRx, timeoutStamp, now, r)>>
         /\ IF d = "continue"
            THEN /\ call' = [call EXCEPT !.sawVerified = saw]
                 /\ UNCHANGED <<aprsState, pc, timeout, ret>>
            ELSE VerifyReturn(d, saw)
  /\ UNCHANGED <<now, schedVars, calVars, fmt>>

\* The loop of verifyLogonStatus ends on its timeout.
VerifyLogonStatusTimeout ==
  /\ pc = "verify"
  /\ ~VerifyWindowOpen(now, timeout)
  /\ VerifyReturn("timeout", call.sawVerified)
  /\ rd' = <<>>
  /\ UNCHANGED <<clientConnected, clientRx, loginPending, timeoutStamp, now, schedVars, calVars, fmt>>

\* ---------------------------------------------------------------- senders
CallPostToAPRS ==
  /\ pc = "idle"
  /\ \E message \in Messages :
       ret' = Op("postToAPRS", aprsState, clientConnected, "none", "none", FALSE,
                 message, postToAPRS(clientConnected, message))
  /\ rd' = <<>>
  /\ UNCHANGED <<connVars, now, ctlVars, schedVars, calVars, fmt>>

CallAPRSsendBulletin ==
  /\ pc = "idle"
  /\ \E message \in Messages, ID \in BulletinIDs :
       ret' = [Op("APRSsendBulletin", aprsState, clientConnected, "none", "none", FALSE,
                  message, APRSsendBulletin(clientConnected, message, ID))
               EXCEPT !.id = ID]
  /\ rd' = <<>>
  /\ UNCHANGED <<connVars, now, ctlVars, schedVars, calVars, fmt>>

CallAPRSsendACK ==
  /\ pc = "idle"
  /\ \E recipient \in Recipients, msgID \in MsgIDs :
       ret' = [Op("APRSsendACK", aprsState, clientConnected, "none", "none", FALSE,
                  recipient, APRSsendACK(clientConnected, recipient, msgID))
               EXCEPT !.id = msgID]
  /\ rd' = <<>>
  /\ UNCHANGED <<connVars, now, ctlVars, schedVars, calVars, fmt>>

Next ==
  \/ Tick
  \/ ServerSend
  \/ RemoteClose
  \/ \E accept \in BOOLEAN : ConnectToAPRSserver(accept)
  \/ \E accept \in BOOLEAN : UpdateAPRS(accept)
  \/ TickerPollAPRS
  \/ VerifyLogonStatusPoll
  \/ VerifyLogonStatusTimeout
  \/ CallPostToAPRS
  \/ CallAPRSsendBulletin
  \/ CallAPRSsendACK

Spec == Init /\ [][Next]_vars

\* ------------------------------------------------------ bulletin scheduler
\* A poll of processBulletins(). The text source (pickAphorism) supplies any
\* text; a request is the call of APRSsendBulletin.
CallProcessBulletins ==
  /\ pc = "idle"
  /\ pollsThisMinute < MaxPollsPerMinute
  /\ \E text \in Messages :
       LET r == processBulletins(hour, minute, day, amBulletinSent, pmBulletinSent, lastDay)
           wroteAM == IF r.fireAM THEN APRSsendBulletin(clientConnected, text, <<"M">>) ELSE <<>>
           wrotePM == IF r.firePM THEN APRSsendBulletin(clientConnected, text, <<"E">>) ELSE <<>>
       IN  /\ amBulletinSent' = r.am
           /\ pmBulletinSent' = r.pm
           /\ lastDay' = r.lastDay
           /\ amEmitted' = amEmitted + (IF r.fireAM THEN 1 ELSE 0)
           /\ pmEmitted' = pmEmitted + (IF r.firePM THEN 1 ELSE 0)
           /\ amDropped' = (amDropped \/ (r.fireAM /\ wroteAM = <<>>))
           /\ pmDropped' = (pmDropped \/ (r.firePM /\ wrotePM = <<>>))
           /\ ret' = Op("processBulletins", aprsState, clientConnected, "none", "none", FALSE,
                        IF r.fireAM \/ r.firePM THEN text ELSE <<>>, wroteAM \o wrotePM)
  /\ pollsThisMinute' = pollsThisMinute + 1
  /\ rd' = <<>>
  /\ UNCHANGED <<connVars, now, ctlVars, hour, minute, day, fmt>>

\* The wall clock reaches the next minute; the current one has been polled.
MinuteTick ==
  /\ pollsThisMinute >= 1
  /\ pollsThisMinute' = 0
  /\ minute' = (minute + 1) % 60
  /\ hour' = IF minute = 59 THEN (hour + 1) % 24 ELSE hour
  /\ IF minute = 59 /\ hour = 23
     THEN /\ day' = (day % DaysInMonth) + 1
          /\ amEmitted' = 0
          /\ pmEmitted' = 0
          /\ amDropped' = FALSE
          /\ pmDropped' = FALSE
     ELSE UNCHANGED <<day, amEmitted, pmEmitted, amDropped, pmDropped>>
  /\ ret' = NoOp
  /\ rd' = <<>>
  /\ UNCHANGED <<connVars, now, ctlVars, schedVars, fmt>>

\* The device is started at any time of any day, with the session verified
\* or the connect refused.
SchedInit ==
  /\ \/ aprsState = APRS_VERIFIED /\ clientConnected = TRUE
     \/ aprsState = APRS_DISCONNECTED /\ clientConnected = FALSE
  /\ clientRx = <<>>
  /\ loginPending = FALSE
  /\ timeoutStamp = 0
  /\ now = 0
  /\ pc = "idle"
  /\ timeout = 0
  /\ call = NoOp
  /\ ret = NoOp
  /\ rd = <<>>
  /\ fmt = NoFmt
  /\ amBulletinSent = FALSE
  /\ pmBulletinSent = FALSE
  /\ lastDay = -1
  /\ hour \in 0..23
  /\ minute \in 0..59
  /\ day \in 1..DaysInMonth
  /\ pollsThisMinute = 0
  /\ amEmitted = 0
  /\ pmEmitted = 0
  /\ amDropped = FALSE
  /\ pmDropped = FALSE

SchedNext ==
  \/ CallProcessBulletins
  \/ MinuteTick

SchedSpec == SchedInit /\ [][SchedNext]_vars

\* ---------------------------------------------- a server that cooperates
\* The server answers a login line with a verified login response.
ServerAnswersLogin ==
  /\ clientConnected
  /\ loginPending
  /\ Len(clientRx) < MaxInbox
  /\ clientRx' = Append(clientRx, LineVerified)
  /\ loginPending' = FALSE
  /\ ret' = NoOp
  /\ rd' = <<>>
  /\ UNCHANGED <<aprsState, clientConnected, timeoutStamp, now, ctlVars, schedVars, calVars, fmt>>

\* Every connect is accepted and every login line answered; loop() runs for
\* ever and the clock advances.
LiveNext ==
  \/ Tick
  \/ ServerAnswersLogin
  \/ ConnectToAPRSserver(TRUE)
  \/ UpdateAPRS(TRUE)
  \/ TickerPollAPRS
  \/ VerifyLogonStatusPoll
  \/ VerifyLogonStatusTimeout

LiveSpec ==
  /\ Init
  /\ [][LiveNext]_vars
  /\ WF_vars(Tick)
  /\ WF_vars(ServerAnswersLogin)
  /\ WF_vars(ConnectToAPRSserver(TRUE))
  /\ WF_vars(UpdateAPRS(TRUE))
  /\ WF_vars(VerifyLogonStatusPoll)
  /\ SF_vars(VerifyLogonStatusTimeout)

\* ------------------------------------------- the host loop at a slot minute
\* setup() and loop() run while the wall clock shows 08:00 or 20:00: the
\* steps of loop() are those of Next, and none of them calls
\* processBulletins (its call in loop() is commented out).
HostInit ==
  /\ aprsState = APRS_DISCONNECTED
  /\ clientConnected = FALSE
  /\ clientRx = <<>>
  /\ loginPending = FALSE
  /\ timeoutStamp = 0
  /\ now = 0
  /\ pc = "setup"
  /\ timeout = 0
  /\ call = NoOp
  /\ ret = NoOp
  /\ rd = <<>>
  /\ fmt = NoFmt
  /\ amBulletinSent = FALSE
  /\ pmBulletinSent = FALSE
  /\ lastDay = -1
  /\ hour \in {MorningHour, EveningHour}
  /\ minute = 0
  /\ day = 1
  /\ pollsThisMinute = 0
  /\ amEmitted = 0
  /\ pmEmitted = 0
  /\ amDropped = FALSE
  /\ pmDropped = FALSE

HostSpec == HostInit /\ [][Next]_vars

\* ------------------------------------------------ a server with a full port
\* The server answers a connect with the line that reports its port as full.
ServerSendPortFull ==
  /\ clientConnected
  /\ Len(clientRx) < MaxInbox
  /\ clientRx' = Append(clientRx, LinePortFull)
  /\ ret' = NoOp
  /\ rd' = <<>>
  /\ UNCHANGED <<aprsState, clientConnected, loginPending, timeoutStamp, now, ctlVars,
                 schedVars, calVars, fmt>>

\* connectToAPRS() is called once in connectToAPRSserver and once in the case
\* APRS_DISCONNECTED of updateAPRS: the TCP connects an operation has issued.
ConnectAttempts(o) ==
  IF o.connect = "none" THEN 0 ELSE 1

PortFullNext ==
  \/ Tick
  \/ ServerSendPortFull
  \/ RemoteClose
  \/ \E accept \in BOOLEAN : ConnectToAPRSserver(accept)
  \/ \E accept \in BOOLEAN : UpdateAPRS(accept)
  \/ VerifyLogonStatusPoll
  \/ VerifyLogonStatusTimeout

PortFullSpec == Init /\ [][PortFullNext]_vars

\* ------------------------------------- the connection and the scheduler
\* The last minute of a day and the first of the next: the device is started
\* at 23:59, or has run through the day and sent both bulletins. loop() runs
\* the connection operations, the senders and processBulletins.
FrameInit ==
  /\ \/ /\ aprsState = APRS_DISCONNECTED
        /\ clientConnected = FALSE
        /\ pc = "setup"
        /\ amBulletinSent = FALSE
        /\ pmBulletinSent = FALSE
        /\ lastDay = -1
        /\ amEmitted = 0
        /\ pmEmitted = 0
        /\ amDropped = FALSE
        /\ pmDropped = FALSE
     \/ /\ aprsState = APRS_VERIFIED
        /\ clientConnected = TRUE
        /\ pc = "idle"
        /\ amBulletinSent = TRUE
        /\ pmBulletinSent = TRUE
        /\ lastDay = 1
        /\ amEmitted = 1
        /\ pmEmitted = 1
        /\ amDropped = FALSE
        /\ pmDropped = FALSE
  /\ clientRx = <<>>
  /\ loginPending = FALSE
  /\ timeoutStamp = 0
  /\ now = 0
  /\ timeout = 0
  /\ call = NoOp
  /\ ret = NoOp
  /\ rd = <<>>
  /\ fmt = NoFmt
  /\ hour = 23
  /\ minute = 59
  /\ day = 1
  /\ pollsThisMinute = 0

\* The wall clock passes midnight.
MidnightTick ==
  /\ hour = 23
  /\ minute = 59
  /\ MinuteTick

FrameNext ==
  \/ LiveNext
  \/ CallPostToAPRS
  \/ CallAPRSsendBulletin
  \/ CallAPRSsendACK
  \/ CallProcessBulletins
  \/ MidnightTick

FrameSpec == FrameInit /\ [][FrameNext]_vars

\* ----------------------------------------------------------- formatters
\* The formatters are called on their own, one call in a behaviour, with
\* arguments drawn from the sets below.
KeepCalm == <<"K", "e", "e", "p", " ", "c", "a", "l", "m", ".">>
FmtMessages == Messages \cup {KeepCalm}
FmtIDs == BulletinIDs \cup {<<"0">>, <<"9">>}

\* Callsigns of every length up to MaxCallLen.
CallTemplate == <<"L", "O", "N", "G", "C", "A", "L", "L", "-", "1", "5">>
CallOf(n) == [i \in 1..n |-> CallTemplate[((i - 1) % Len(CallTemplate)) + 1]]
CallSigns == {CallOf(n) : n \in 0..MaxCallLen}

\* Values in tenths: around the rounding points, negative, and with more
\* digits than the widest field.
PadValues == {-123456, -1235, -125, -15, -5, -4, 0, 4, 5, 14, 15, 94, 95,
              9994, 9995, 99995, 123456}
Widths == 1..MaxWidth

\* Latitudes and longitudes in thousandths of a minute: whole degrees and the
\* minutes around the rounding points of the hundredths, on both sides of 0
\* and up to the ends of the range.
MinuteSamples == {0, 4, 5, 6, 29995, 59994, 59995, 59996, 59999}
LatSamples ==
  {sign * (deg * UnitsPerDegree + m) :
     sign \in {-1, 1}, deg \in {0, 9, 10, 89}, m \in MinuteSamples}
  \cup {-90 * UnitsPerDegree, 90 * UnitsPerDegree}
LonSamples ==
  {sign * (deg * UnitsPerDegree + m) :
     sign \in {-1, 1}, deg \in {0, 9, 99, 100, 179}, m \in MinuteSamples}
  \cup {-180 * UnitsPerDegree, 180 * UnitsPerDegree}

CallAPRSformatBulletin ==
  /\ fmt = NoFmt
  /\ \E message \in FmtMessages, ID \in FmtIDs :
       fmt' = Fmt("APRSformatBulletin", <<message, ID>>, APRSformatBulletin(message, ID))
  /\ UNCHANGED <<connVars, now, ctlVars, ret, rd, schedVars, calVars>>

CallAPRSpadCall ==
  /\ fmt = NoFmt
  /\ \E callSign \in CallSigns :
       fmt' = Fmt("APRSpadCall", <<callSign>>, APRSpadCall(callSign))
  /\ UNCHANGED <<connVars, now, ctlVars, ret, rd, schedVars, calVars>>

CallAPRSpadder ==
  /\ fmt = NoFmt
  /\ \E value \in PadValues, width \in Widths :
       fmt' = Fmt("APRSpadder", <<value, width>>, APRSpadder(value, width))
  /\ UNCHANGED <<connVars, now, ctlVars, ret, rd, schedVars, calVars>>

CallAPRSlocation ==
  /\ fmt = NoFmt
  /\ \E lat \in LatSamples, lon \in LonSamples, latUp \in BOOLEAN, lonUp \in BOOLEAN :
       fmt' = Fmt("APRSlocation", <<lat, lon>>, APRSlocation(lat, lon, latUp, lonUp))
  /\ UNCHANGED <<connVars, now, ctlVars, ret, rd, schedVars, calVars>>

\* ------------------------------------------------------ receive buffer
\* APRSreceiveData() of the earlier aprsService.cpp (src/src), with its
\* buffer char rcvBuffer[maxSize] scaled from 500 bytes to maxSize. A byte
\* stream is what the transport can deliver to one call; client.read() on an
\* empty transport returns -1 and takes nothing.
LF == "\n"
Bytes == {"a", LF}
Streams == UNION {[1..n -> Bytes] : n \in 0..(maxSize + 1)}

\* The while (i < maxSize) loop from index i on: the indices of rcvBuffer it
\* writes, in order, the number of client.read() calls it makes on an empty
\* transport, and i when it is left.
RECURSIVE ReceiveLoop(_, _, _, _)
ReceiveLoop(stream, i, writes, emptyReads) ==
  IF i >= maxSize
  THEN [i |-> i, writes |-> writes, emptyReads |-> emptyReads]
  ELSE LET available == stream # <<>>
           rest == IF available THEN Tail(stream) ELSE stream
           writes1 == Append(writes, i)
           empty1 == emptyReads + (IF available THEN 0 ELSE 1)
       IN  IF available /\ Head(stream) = LF
           THEN [i |-> i + 1, writes |-> writes1, emptyReads |-> empty1]
           ELSE ReceiveLoop(rest, i + 1, writes1, empty1)

\* APRSreceiveData(): the indices of rcvBuffer written after its
\* initialisation and the number of reads made on an empty transport.
APRSreceiveData(stream) ==
  IF stream = <<>>
  THEN <<(<<>>), 0>>
  ELSE LET l == ReceiveLoop(stream, 0, <<>>, 0)
       IN  <<Append(l.writes, l.i), l.emptyReads>>

CallAPRSreceiveData ==
  /\ fmt = NoFmt
  /\ \E stream \in Streams :
       fmt' = Fmt("APRSreceiveData", <<stream>>, APRSreceiveData(stream))
  /\ UNCHANGED <<connVars, now, ctlVars, ret, rd, schedVars, calVars>>

FmtNext ==
  \/ CallAPRSformatBulletin
  \/ CallAPRSpadCall
  \/ CallAPRSpadder
  \/ CallAPRSlocation
  \/ CallAPRSreceiveData

FmtSpec == Init /\ [][FmtNext]_vars

\* ------------------------------------------ the clock between two passes
\* Between two readings of millis() by the loop of verifyLogonStatus more than
\* one tick can pass: client.readStringUntil waits for the end of a line and
\* yield() runs other work.
LongTick ==
  /\ now' = (now + 2 * MsPerTick) % ClockMod
  /\ ret' = NoOp
  /\ rd' = <<>>
  /\ UNCHANGED <<connVars, ctlVars, schedVars, calVars, fmt>>

TermNext ==
  \/ Tick
  \/ LongTick
  \/ ServerSend
  \/ RemoteClose
  \/ \E accept \in BOOLEAN : ConnectToAPRSserver(accept)
  \/ \E accept \in BOOLEAN : UpdateAPRS(accept)
  \/ VerifyLogonStatusPoll
  \/ VerifyLogonStatusTimeout

\* The clock advances and the loop of verifyLogonStatus keeps running: a
\* pass that reads the clock at or after the deadline leaves the loop, so the
\* exit is taken if the clock is read there again and again.
TermSpec ==
  /\ Init
  /\ [][TermNext]_vars
  /\ WF_vars(Tick \/ LongTick)
  /\ WF_vars(VerifyLogonStatusPoll)
  /\ SF_vars(VerifyLogonStatusTimeout)

\* ------------------------------------------- the reader and its sessions
\* connectToAPRS() and readAPRSPacket() are declared in aprsService.h; here
\* they are called in any order, by any caller, against a server that sends
\* lines, stays silent or closes.
CallConnectToAPRS(accept) ==
  /\ LET c == connectToAPRS(clientConnected, accept)
     IN  /\ clientConnected' = c.conn
         /\ clientRx' = IF c.tried THEN <<>> ELSE clientRx
         /\ ret' = Op("connectToAPRS", aprsState, clientConnected,
                      ConnectOutcome(c), "none", FALSE, <<>>, <<>>)
  /\ rd' = <<>>
  /\ UNCHANGED <<aprsState, loginPending, timeoutStamp, now, ctlVars, schedVars, calVars, fmt>>

CallReadAPRSPacket ==
  /\ LET r == readAPRSPacket(clientConnected, clientRx, timeoutStamp, now)
     IN  /\ clientConnected' = r.conn
         /\ clientRx' = r.rx
         /\ timeoutStamp' = r.stamp
         /\ loginPending' = (loginPending /\ r.conn)
         /\ rd' = <<ReadCall(clientConnected, clientRx, timeoutStamp, now, r)>>
  /\ ret' = Op("readAPRSPacket", aprsState, clientConnected, "none", "none", FALSE, <<>>, <<>>)
  /\ UNCHANGED <<aprsState, now, ctlVars, schedVars, calVars, fmt>>

ReaderNext ==
  \/ Tick
  \/ ServerSend
  \/ RemoteClose
  \/ \E accept \in BOOLEAN : CallConnectToAPRS(accept)
  \/ CallReadAPRSPacket

ReaderSpec == Init /\ [][ReaderNext]_vars

\* ----------------------------------------------------- a silent server
\* The server accepts or refuses connects and never sends a byte. setup()
\* reaches connectToAPRSserver() some time after the start. With nothing to
\* read, a pass of the loop of verifyLogonStatus takes far less than a tick:
\* the clock advances only after the loop has read at the current instant,
\* and the loop is left before the clock moves on once the window is closed.
SilentInit ==
  /\ aprsState = APRS_DISCONNECTED
  /\ clientConnected = FALSE
  /\ clientRx = <<>>
  /\ loginPending = FALSE
  /\ timeoutStamp = 0
  /\ now = MsPerTick
  /\ pc = "setup"
  /\ timeout = 0
  /\ call = NoOp
  /\ ret = NoOp
  /\ rd = <<>>
  /\ fmt = NoFmt
  /\ amBulletinSent = FALSE
  /\ pmBulletinSent = FALSE
  /\ lastDay = -1
  /\ hour = 0
  /\ minute = 0
  /\ day = 1
  /\ pollsThisMinute = 0
  /\ amEmitted = 0
  /\ pmEmitted = 0
  /\ amDropped = FALSE
  /\ pmDropped = FALSE

SilentTick ==
  /\ pc = "verify" => rd # <<>>
  /\ Tick

SilentNext ==
  \/ SilentTick
  \/ \E accept \in BOOLEAN : ConnectToAPRSserver(accept)
  \/ \E accept \in BOOLEAN : UpdateAPRS(accept)
  \/ VerifyLogonStatusPoll
  \/ VerifyLogonStatusTimeout

SilentSpec == SilentInit /\ [][SilentNext]_vars

\* ================================================================ claims
StateMachineOps == {"connectToAPRSserver", "updateAPRS", "pollAPRS"}
SendOps == {"postToAPRS", "APRSsendBulletin", "APRSsendACK"}

\* C1 (as claimed): on every calendar day at most one morning and at most one
\* evening bulletin request is emitted, however many polls observe the slot's
\* minute, when processBulletins is polled at least once per minute from its
\* initial state.
C1_AtMostOncePerSlot ==
  /\ amEmitted <= 1
  /\ pmEmitted <= 1

\* C2 (as claimed): with a server that accepts every connect and answers every
\* login line with a verified response, a state machine that is Disconnected
\* between two polls is eventually Verified again.
C2_EventuallyVerified ==
  (pc = "idle" /\ aprsState = APRS_DISCONNECTED) ~> (aprsState = APRS_VERIFIED)

\* C3 (as claimed): postToAPRS, APRSsendBulletin and APRSsendACK called in a
\* state other than Verified put no line on the transport.
C3_SendsOnlyWhenVerified ==
  (ret.op \in SendOps /\ ret.pre # APRS_VERIFIED) => ret.wrote = <<>>

\* C4: whenever connectToAPRSserver, updateAPRS or pollAPRS returns with the
\* state Verified, the transport is connected.
C4_VerifiedImpliesConnected ==
  (ret.op \in StateMachineOps /\ aprsState = APRS_VERIFIED) => clientConnected

C4_Witness ==
  /\ ret.op = "pollAPRS"
  /\ ret.pre = APRS_VERIFIED
  /\ aprsState = APRS_VERIFIED
  /\ clientConnected

\* C5: the state becomes Verified only on the return of an operation that read
\* a login-response line containing "verified" and not "unverified"; an
\* operation whose verification timed out never returns in state Verified.
C5_VerifiedOnlyOnResponse ==
  [][/\ (aprsState' = APRS_VERIFIED /\ aprsState # APRS_VERIFIED) => ret'.sawVerified
     /\ ret'.verify = "timeout" => aprsState' # APRS_VERIFIED]_vars

C5_Witness ==
  /\ ret.op = "updateAPRS"
  /\ ret.verify = "timeout"
  /\ ~ret.sawVerified
  /\ aprsState # APRS_VERIFIED

\* C6 (as claimed): when the verification run by an updateAPRS poll in state
\* Connected or LoggedIn fails, by an "unverified" response or by timeout, the
\* state is Disconnected when the poll returns.
C6_VerifyFailureDisconnects ==
  (/\ ret.op = "updateAPRS"
   /\ ret.pre \in {APRS_CONNECTED, APRS_LOGGED_IN}
   /\ ret.verify \in {"unverified", "timeout"}) => aprsState = APRS_DISCONNECTED

\* C7 (as claimed): an updateAPRS poll in state Disconnected attempts a TCP
\* connect and returns in state Connected if the connect succeeded and in state
\* Disconnected if it failed.
C7_PollInDisconnected ==
  (ret.op = "updateAPRS" /\ ret.pre = APRS_DISCONNECTED) =>
    /\ ret.connect # "none"
    /\ ret.connect = "ok" => aprsState = APRS_CONNECTED
    /\ ret.connect = "failed" => aprsState = APRS_DISCONNECTED

\* C8 (as claimed): an updateAPRS poll in state Connected writes the login
\* line exactly once, runs no verification and returns in state LoggedIn.
C8_PollInConnected ==
  (ret.op = "updateAPRS" /\ ret.pre = APRS_CONNECTED) =>
    /\ ret.wrote = <<LogonLine>>
    /\ ret.verify = "none"
    /\ aprsState = APRS_LOGGED_IN

\* C9: a pollAPRS or updateAPRS poll in state Verified returns in state
\* Disconnected if the transport is not connected when the poll ends (closed by
\* the remote side before it, or by the reader's idle timeout during it), and
\* in state Verified otherwise.
C9_PollInVerified ==
  (ret.op \in {"pollAPRS", "updateAPRS"} /\ ret.pre = APRS_VERIFIED) =>
    aprsState = IF clientConnected THEN APRS_VERIFIED ELSE APRS_DISCONNECTED

\* The reader's idle timeout closes the transport during the poll.
C9_Witness ==
  /\ ret.op = "updateAPRS"
  /\ ret.pre = APRS_VERIFIED
  /\ ret.preConn
  /\ ~clientConnected
  /\ aprsState = APRS_DISCONNECTED

\* C10: for every message longer than 67 characters, in every connection
\* state, APRSsendBulletin puts no line on the transport.
C10_OversizedRejected ==
  (ret.op = "APRSsendBulletin" /\ Len(ret.arg) > 67) => ret.wrote = <<>>

C10_Witness ==
  /\ ret.op = "APRSsendBulletin"
  /\ Len(ret.arg) = 68
  /\ ret.pre = APRS_VERIFIED
  /\ ret.preConn
  /\ ret.wrote = <<>>

\* C11 (as claimed): for every message of at most 67 characters a call of
\* APRSsendBulletin puts exactly one line on the transport, and the line
\* contains ":BLN" followed by the given ID.
C11_InSizeWrittenOnce ==
  (ret.op = "APRSsendBulletin" /\ Len(ret.arg) <= 67) =>
    /\ Len(ret.wrote) = 1
    /\ IndexOf(ret.wrote[1], StrBLN \o ret.id) # -1

\* C11 (amended): for every message of at most 67 characters a call of
\* APRSsendBulletin made while the transport is connected puts exactly one line
\* on the transport, containing ":BLN" followed by the given ID; a call made
\* while the transport is not connected puts none.
C11_InSizeWrittenOnceIfConnected ==
  (ret.op = "APRSsendBulletin" /\ Len(ret.arg) <= 67) =>
    IF ret.preConn
    THEN /\ Len(ret.wrote) = 1
         /\ IndexOf(ret.wrote[1], StrBLN \o ret.id) # -1
    ELSE ret.wrote = <<>>

C11_Witness ==
  /\ ret.op = "APRSsendBulletin"
  /\ Len(ret.arg) = 67
  /\ ret.id = <<"E">>
  /\ ret.preConn
  /\ Len(ret.wrote) = 1

\* C12 (as claimed): the line written at logon is exactly "user", the callsign,
\* "pass", the passcode, "vers", the client id, the version, "filter" and the
\* filter, separated by single spaces.
C12_LoginLineFormat ==
  (ret.op = "connectToAPRSserver" /\ ret.wrote # <<>>) =>
    ret.wrote =
      << <<"u", "s", "e", "r", " ">> \o CALLSIGN
           \o <<" ", "p", "a", "s", "s", " ">> \o APRS_PASSCODE
           \o <<" ", "v", "e", "r", "s", " ">> \o APRS_SOFTWARE_NAME
           \o <<" ">> \o FW_VERSION
           \o <<" ", "f", "i", "l", "t", "e", "r", " ">> \o APRS_FILTER >>

\* The last step was a pass of the loop of verifyLogonStatus that read a line.
VerifyReceived ==
  /\ Len(rd) = 1
  /\ pc = "verify" \/ ret.verify # "none"
  /\ rd[1].conn
  /\ rd[1].rx # <<>>

\* C13 (as claimed): while verification is polling, a received line that
\* contains "verified" and not "unverified" ends verification with success, a
\* received line that contains "unverified" ends it with a rejection, and every
\* other line is ignored and polling continues.
C13_DecisionRule ==
  VerifyReceived =>
    LET line == Head(rd[1].rx)
    IN  IF IndexOf(line, StrUnverified) # -1
        THEN pc = "idle" /\ ret.verify = "unverified"
        ELSE IF IndexOf(line, StrVerified) # -1
        THEN pc = "idle" /\ ret.verify = "verified"
        ELSE pc = "verify"

\* C13 (amended): while verification is polling, a received line that begins
\* with "# logresp" and contains "verified" and not "unverified" ends
\* verification with success, a received line that begins with "# logresp" and
\* contains "unverified" ends it with a rejection, and every other line is
\* ignored and polling continues.
C13_DecisionRuleOnLogresp ==
  VerifyReceived =>
    LET line == Head(rd[1].rx)
    IN  IF StartsWith(line, StrLogresp) /\ IndexOf(line, StrUnverified) # -1
        THEN pc = "idle" /\ ret.verify = "unverified"
        ELSE IF StartsWith(line, StrLogresp) /\ IndexOf(line, StrVerified) # -1
        THEN pc = "idle" /\ ret.verify = "verified"
        ELSE pc = "verify"

\* A line that is no login response and contains "verified" has been ignored.
C13_Witness ==
  /\ VerifyReceived
  /\ Head(rd[1].rx) = LinePacket
  /\ pc = "verify"

\* C14: in every processBulletins poll whose observed day differs from
\* lastDay, after the poll amBulletinSent and pmBulletinSent are false and
\* lastDay is the observed day, whatever the flags were before and whether or
\* not a bulletin fired in that poll.
C14_DayChangeReset ==
  [][(pollsThisMinute' = pollsThisMinute + 1 /\ day # lastDay) =>
       /\ ~amBulletinSent'
       /\ ~pmBulletinSent'
       /\ lastDay' = day]_vars

\* The first poll after a start at 08:00 has fired the morning bulletin and
\* reset the flags.
C14_Witness ==
  /\ ret.op = "processBulletins"
  /\ hour = MorningHour
  /\ minute = 0
  /\ pollsThisMinute = 1
  /\ amEmitted = 1
  /\ ~amBulletinSent
  /\ lastDay = day

\* C15: when processBulletins is polled at least once in every minute, on
\* every calendar day a morning bulletin request has been emitted when the
\* minute 08:00 ends and an evening request when the minute 20:00 ends.
C15_AtLeastOncePerSlot ==
  [][/\ (hour = MorningHour /\ minute = 0 /\ minute' = 1) => amEmitted >= 1
     /\ (hour = EveningHour /\ minute = 0 /\ minute' = 1) => pmEmitted >= 1]_vars

\* The evening slot of a day whose morning bulletin was sent too: the device
\* has run through the morning and the evening slot has fired.
C15_Witness ==
  /\ hour = EveningHour
  /\ minute = 1
  /\ amEmitted >= 1
  /\ pmEmitted >= 1
  /\ amBulletinSent
  /\ pmBulletinSent

\* C16: a processBulletins poll emits a morning bulletin request if and only
\* if it observes hour 8 and minute 0 with amBulletinSent false when it starts,
\* and an evening request if and only if it observes hour 20 and minute 0 with
\* pmBulletinSent false when it starts; it emits no request otherwise.
C16_FireCondition ==
  [][pollsThisMinute' = pollsThisMinute + 1 =>
       /\ amEmitted' = amEmitted +
            (IF hour = 8 /\ minute = 0 /\ ~amBulletinSent THEN 1 ELSE 0)
       /\ pmEmitted' = pmEmitted +
            (IF hour = 20 /\ minute = 0 /\ ~pmBulletinSent THEN 1 ELSE 0)]_vars

\* A second poll in the minute 20:00, made with pmBulletinSent true, has
\* emitted nothing.
C16_Witness ==
  /\ ret.op = "processBulletins"
  /\ hour = 20
  /\ minute = 0
  /\ pollsThisMinute = 2
  /\ pmBulletinSent
  /\ pmEmitted = 1
  /\ ret.arg = <<>>

\* C17 (as claimed): every iteration of loop() that runs while the state is
\* Verified polls processBulletins, so that an iteration made at 08:00 or 20:00
\* has emitted the slot's bulletin request when it ends.
C17_LoopPollsScheduler ==
  (ret.op = "updateAPRS" /\ ret.pre = APRS_VERIFIED) =>
    /\ pollsThisMinute >= 1
    /\ hour = MorningHour => amEmitted >= 1
    /\ hour = EveningHour => pmEmitted >= 1

\* C18: readAPRSPacket called while the transport is not connected returns
\* false with an empty packet and leaves the transport, the unread lines and
\* the idle timer as they were: the timer is not started, advanced or expired.
C18_ReaderNotConnected ==
  /\ \A i \in DOMAIN rd :
       ~rd[i].conn =>
         /\ ~rd[i].res.ok
         /\ rd[i].res.packet = <<>>
         /\ ~rd[i].res.conn
         /\ rd[i].res.rx = rd[i].rx
         /\ rd[i].res.stamp = rd[i].stamp
  /\ (rd # <<>> /\ ~rd[Len(rd)].conn) =>
       /\ ~clientConnected
       /\ timeoutStamp = rd[Len(rd)].stamp

\* A call on a transport that is not connected, made with the idle timer
\* running for more than the idle timeout, has left the timer running.
C18_Witness ==
  /\ rd # <<>>
  /\ ~rd[1].conn
  /\ rd[1].stamp # 0
  /\ (rd[1].t - rd[1].stamp) % ClockMod > 1500
  /\ timeoutStamp = rd[1].stamp

\* C19 (as claimed): readAPRSPacket called on a connected transport with data
\* available returns true with the next line, whatever the line, the empty
\* line included, and resets the idle timer.
C19_ReaderDataAvailable ==
  \A i \in DOMAIN rd :
    (rd[i].conn /\ rd[i].rx # <<>>) =>
      /\ rd[i].res.ok
      /\ rd[i].res.packet = Head(rd[i].rx)
      /\ rd[i].res.stamp = 0

\* C19 (amended): readAPRSPacket called on a connected transport with data
\* available consumes the next line, hands it over as the packet and resets the
\* idle timer; it returns true if the line is not empty and false if it is.
C19_ReaderDataAvailableNonEmpty ==
  \A i \in DOMAIN rd :
    (rd[i].conn /\ rd[i].rx # <<>>) =>
      /\ rd[i].res.ok = (Len(Head(rd[i].rx)) > 0)
      /\ rd[i].res.packet = Head(rd[i].rx)
      /\ rd[i].res.rx = Tail(rd[i].rx)
      /\ rd[i].res.conn
      /\ rd[i].res.stamp = 0

\* An empty line has been read while the idle timer was running: the call
\* returned false and the timer is reset.
C19_Witness ==
  /\ rd # <<>>
  /\ rd[1].conn
  /\ rd[1].rx # <<>>
  /\ Head(rd[1].rx) = LineEmpty
  /\ rd[1].stamp # 0
  /\ ~rd[1].res.ok
  /\ timeoutStamp = 0

\* C20: readAPRSPacket closes the transport only in a call made with no data
\* available and more than 1500 ms elapsed since the idle timer was started
\* (a line that is read stops the timer); that call returns false; a call made
\* with the timer stopped or at most 1500 ms after its start leaves the
\* transport connected.
C20_IdleTimeoutClose ==
  /\ \A i \in DOMAIN rd :
       /\ (rd[i].conn /\ ~rd[i].res.conn) =>
            /\ rd[i].rx = <<>>
            /\ rd[i].stamp # 0
            /\ (rd[i].t - rd[i].stamp) % ClockMod > 1500
            /\ ~rd[i].res.ok
       /\ (rd[i].conn /\ (rd[i].stamp = 0 \/ (rd[i].t - rd[i].stamp) % ClockMod <= 1500)) =>
            rd[i].res.conn
  /\ rd # <<>> => clientConnected = rd[Len(rd)].res.conn

\* The idle timeout has closed the transport.
C20_Witness ==
  /\ rd # <<>>
  /\ rd[Len(rd)].conn
  /\ rd[Len(rd)].stamp # 0
  /\ (rd[Len(rd)].t - rd[Len(rd)].stamp) % ClockMod > 1500
  /\ ~rd[Len(rd)].res.conn
  /\ ~clientConnected

\* C21 (as claimed): when the first line read after connecting reports the
\* port as full, the logon operation closes the connection and issues a second
\* TCP connect in the same call, and it has not written the login line before
\* that line is read.
C21_PortFullRetry ==
  (/\ Len(rd) = 1
   /\ rd[1].conn
   /\ rd[1].rx # <<>>
   /\ Head(rd[1].rx) = LinePortFull
   /\ pc = "verify"
   /\ call.op = "connectToAPRSserver") =>
    /\ ConnectAttempts(call) = 2
    /\ call.wrote = <<>>

\* C22 (as claimed): every change of aprsState is one of Disconnected to
\* Connected, Connected to LoggedIn, LoggedIn to Verified, LoggedIn to
\* Disconnected and Verified to Disconnected.
C22_TransitionsInTable ==
  [][aprsState' # aprsState =>
       <<aprsState, aprsState'>> \in
         {<<APRS_DISCONNECTED, APRS_CONNECTED>>,
          <<APRS_CONNECTED, APRS_LOGGED_IN>>,
          <<APRS_LOGGED_IN, APRS_VERIFIED>>,
          <<APRS_LOGGED_IN, APRS_DISCONNECTED>>,
          <<APRS_VERIFIED, APRS_DISCONNECTED>>}]_vars

\* C23: connectToAPRS called while the transport is connected returns true,
\* issues no TCP connect and leaves the session as it is, so that a second call
\* in a row changes nothing either; an updateAPRS poll in state Disconnected
\* made on a connected transport leaves the transport, its unread lines and the
\* state unchanged.
C23_IdempotentConnect ==
  [][/\ clientConnected =>
          \A accept \in BOOLEAN :
            LET c == connectToAPRS(clientConnected, accept)
            IN  /\ c.ret
                /\ c.conn
                /\ ~c.tried
                /\ connectToAPRS(c.conn, accept) = c
     /\ (/\ aprsState = APRS_DISCONNECTED
         /\ clientConnected
         /\ ret'.op = "updateAPRS"
         /\ ret'.pre = APRS_DISCONNECTED) =>
          /\ ret'.connect = "none"
          /\ clientConnected'
          /\ UNCHANGED <<aprsState, clientRx, loginPending, timeoutStamp>>]_vars

\* An updateAPRS poll in state Disconnected has found the transport connected
\* and unread lines in it, and has left them there.
C23_Witness ==
  /\ ret.op = "updateAPRS"
  /\ ret.pre = APRS_DISCONNECTED
  /\ ret.preConn
  /\ ret.connect = "none"
  /\ clientConnected
  /\ clientRx # <<>>

\* C24: amBulletinSent, pmBulletinSent and lastDay change only in a poll of
\* processBulletins, never in a connection operation or a sender, and a poll
\* that clears one of the two flags leaves both false.
C24_FlagsOwnedByScheduler ==
  [][/\ schedVars' # schedVars => ret'.op = "processBulletins"
     /\ ((amBulletinSent /\ ~amBulletinSent') \/ (pmBulletinSent /\ ~pmBulletinSent')) =>
          (~amBulletinSent' /\ ~pmBulletinSent')]_vars

\* After midnight a connection operation has run with both flags still set by
\* the bulletins of the day before.
C24_Witness ==
  /\ hour = 0
  /\ day = 2
  /\ lastDay = 1
  /\ amBulletinSent
  /\ pmBulletinSent
  /\ ret.op = "pollAPRS"
  /\ ret.pre = APRS_VERIFIED
  /\ rd # <<>>

\* C25: for every message and ID, APRSformatBulletin returns the callsign,
\* ">APRS,TCPIP*::BLN", the ID, five spaces, ":" and the message, and for the
\* text "Keep calm." and the ID "M" it returns
\* "W4KRL-2>APRS,TCPIP*::BLNM     :Keep calm."; the result is the same in
\* every state for the same inputs.
C25_BulletinFrame ==
  fmt.fn = "APRSformatBulletin" =>
    /\ fmt.out = <<"W", "4", "K", "R", "L", "-", "2">>
                   \o <<">", "A", "P", "R", "S", ",", "T", "C", "P", "I", "P", "*", ":", ":", "B", "L", "N">>
                   \o fmt.args[2] \o <<" ", " ", " ", " ", " ", ":">> \o fmt.args[1]
    /\ (fmt.args = <<KeepCalm, <<"M">> >>) =>
         fmt.out = <<"W", "4", "K", "R", "L", "-", "2", ">", "A", "P", "R", "S", ",", "T", "C", "P", "I", "P", "*", ":", ":", "B", "L", "N", "M", " ", " ", " ", " ", " ", ":", "K", "e", "e", "p", " ", "c", "a", "l", "m", ".">>

C25_Witness ==
  /\ fmt.fn = "APRSformatBulletin"
  /\ fmt.args = <<KeepCalm, <<"M">> >>
  /\ Len(fmt.out) = 41

\* C26: for every callsign of at most 9 characters APRSpadCall returns 9
\* characters, the callsign followed by spaces; for every longer callsign it
\* returns the first 9 characters of it.
C26_PadCall ==
  fmt.fn = "APRSpadCall" =>
    LET in == fmt.args[1]
    IN  IF Len(in) <= 9
        THEN /\ Len(fmt.out) = 9
             /\ \A i \in 1..9 : fmt.out[i] = IF i <= Len(in) THEN in[i] ELSE " "
        ELSE fmt.out = SubSeq(in, 1, 9)

\* A callsign of 11 characters has been cut to 9.
C26_Witness ==
  /\ fmt.fn = "APRSpadCall"
  /\ Len(fmt.args[1]) = 11
  /\ Len(fmt.out) = 9

\* C27: for every recipient and message ID the line APRSsendACK writes is the
\* callsign, ">APRS,TCPIP*::", the recipient padded with spaces or cut to 9
\* characters, ":ack" and the message ID; the addressee field between the two
\* colons has 9 characters.
C27_AckFrame ==
  (ret.op = "APRSsendACK" /\ ret.wrote # <<>>) =>
    LET head == <<"W", "4", "K", "R", "L", "-", "2", ">", "A", "P", "R", "S", ",", "T", "C", "P", "I", "P", "*", ":", ":">>
        field == IF Len(ret.arg) >= 9
                 THEN SubSeq(ret.arg, 1, 9)
                 ELSE ret.arg \o [i \in 1..(9 - Len(ret.arg)) |-> " "]
        line == ret.wrote[1]
    IN  /\ Len(ret.wrote) = 1
        /\ line = head \o field \o <<":", "a", "c", "k">> \o ret.id
        /\ line[Len(head)] = ":"
        /\ line[Len(head) + 10] = ":"

\* A recipient of 11 characters has been acknowledged.
C27_Witness ==
  /\ ret.op = "APRSsendACK"
  /\ Len(ret.arg) = 11
  /\ ret.id = <<"7">>
  /\ Len(ret.wrote) = 1

\* C28: for every latitude in [-90, 90] and longitude in [-180, 180],
\* APRSlocation returns DDmm.mmH/DDDmm.mmH: two and three digits of degrees,
\* minutes with two integer and two decimal digits, H = N or S and E or W by
\* the sign; degrees + minutes / 60 read back from it is within 1/6000 degree
\* (a hundredth of a minute) of the magnitude of the input.
C28_LocationEncoding ==
  fmt.fn = "APRSlocation" =>
    LET out == fmt.out
        lat == fmt.args[1]
        lon == fmt.args[2]
        IsDigits(s) == \A i \in 1..Len(s) : \E d \in 1..10 : DigitChars[d] = s[i]
        DigitVal(c) == (CHOOSE d \in 1..10 : DigitChars[d] = c) - 1
        Val2(s) == 10 * DigitVal(s[1]) + DigitVal(s[2])
        Val3(s) == 100 * DigitVal(s[1]) + Val2(SubSeq(s, 2, 3))
        \* a hundredth of a minute is 10 units
        latRead == 60000 * Val2(SubSeq(out, 1, 2))
                     + 10 * (100 * Val2(SubSeq(out, 3, 4)) + Val2(SubSeq(out, 6, 7)))
        lonRead == 60000 * Val3(SubSeq(out, 10, 12))
                     + 10 * (100 * Val2(SubSeq(out, 13, 14)) + Val2(SubSeq(out, 16, 17)))
        Dist(a, b) == IF a < b THEN b - a ELSE a - b
    IN  /\ Len(out) = 18
        /\ IsDigits(SubSeq(out, 1, 4))
        /\ out[5] = "."
        /\ IsDigits(SubSeq(out, 6, 7))
        /\ out[8] = IF lat < 0 THEN "S" ELSE "N"
        /\ out[9] = "/"
        /\ IsDigits(SubSeq(out, 10, 14))
        /\ out[15] = "."
        /\ IsDigits(SubSeq(out, 16, 17))
        /\ out[18] = IF lon < 0 THEN "W" ELSE "E"
        /\ Dist(latRead, IF lat < 0 THEN -lat ELSE lat) <= 10
        /\ Dist(lonRead, IF lon < 0 THEN -lon ELSE lon) <= 10

\* 89 degrees 59.996 minutes south and 179 degrees 59.995 minutes west: the
\* minutes of the latitude are printed as 60.00.
C28_Witness ==
  /\ fmt.fn = "APRSlocation"
  /\ fmt.args = <<-(89 * 60000 + 59996), -(179 * 60000 + 59995)>>
  /\ SubSeq(fmt.out, 1, 9) = <<"8", "9", "6", "0", ".", "0", "0", "S", "/">>
  /\ fmt.out[18] = "W"

\* C29 (as claimed): for every value and width, APRSpadder returns at least
\* width characters that denote round(value) in decimal, padded with zeros on
\* the left, also when round(value) has more digits than width or is negative.
C29_PadderDenotesRound ==
  fmt.fn = "APRSpadder" =>
    LET out == fmt.out
        value == fmt.args[1]
        width == fmt.args[2]
        rounded == IF value >= 0 THEN (value + 5) \div 10 ELSE -((5 - value) \div 10)
        negative == out # <<>> /\ out[1] = "-"
        digits == IF negative THEN Tail(out) ELSE out
        DigitVal(c) == (CHOOSE d \in 1..10 : DigitChars[d] = c) - 1
        Pow10(n) == IF n = 0 THEN 1 ELSE IF n = 1 THEN 10 ELSE IF n = 2 THEN 100
                    ELSE IF n = 3 THEN 1000 ELSE IF n = 4 THEN 10000
                    ELSE IF n = 5 THEN 100000 ELSE 1000000
        magnitude == IF digits = <<>> THEN 0
                     ELSE LET n == Len(digits)
                              term(i) == DigitVal(digits[i]) * Pow10(n - i)
                              F[i \in 0..n] == IF i = 0 THEN 0 ELSE F[i - 1] + term(i)
                          IN  F[n]
    IN  /\ Len(out) >= width
        /\ digits # <<>>
        /\ \A i \in 1..Len(digits) : \E d \in 1..10 : DigitChars[d] = digits[i]
        /\ (IF negative THEN -magnitude ELSE magnitude) = rounded

\* C30 (as claimed): every call of verifyLogonStatus ends, with success, a
\* rejection or its timeout, as long as the clock advances, whatever the
\* server sends and whether or not the transport is closed, also when the
\* millisecond clock wraps around.
C30_VerificationTerminates ==
  (pc = "verify") ~> (pc = "idle")


\* C31 (as claimed): a scheduled bulletin request that writes nothing (the
\* transport is not connected, or the text is longer than 67 characters) is
\* not retried: the poll that emitted it leaves the slot's flag true, and no
\* later poll of the same calendar day emits a request for that slot.
C31_DroppedNotRetried ==
  [][pollsThisMinute' = pollsThisMinute + 1 =>
       /\ (amEmitted' > amEmitted /\ ret'.wrote = <<>>) => amBulletinSent'
       /\ (pmEmitted' > pmEmitted /\ ret'.wrote = <<>>) => pmBulletinSent'
       /\ amDropped => amEmitted' = amEmitted
       /\ pmDropped => pmEmitted' = pmEmitted]_vars


\* C32 (as claimed): an idle timer started by readAPRSPacket in one session
\* does not close a later session: a call of readAPRSPacket made right after
\* connectToAPRS has opened a new connection, before any time has passed in
\* the new session, leaves the transport connected.
C32_TimerDoesNotLeak ==
  [][(ret.op = "connectToAPRS" /\ ret.connect = "ok" /\ rd' # <<>>) =>
       rd'[1].res.conn]_vars


\* C33 (as claimed): when verifyLogonStatus is entered with the transport
\* connected and the server sends nothing, the idle timeout of readAPRSPacket
\* has closed the transport by the time verifyLogonStatus returns false on its
\* timeout.
C33_SilentVerificationCloses ==
  (/\ ret.verify = "timeout"
   /\ \/ ret.op = "connectToAPRSserver" /\ ret.connect = "ok"
      \/ ret.op = "updateAPRS" /\ ret.preConn)
    => ~clientConnected


\* C34: pollAPRS called while aprsState is not APRS_VERIFIED makes no call of
\* readAPRSPacket and leaves aprsState, the transport, the unread lines and
\* the idle timer as they were.
C34_PollNoOpOutsideVerified ==
  [][(ret'.op = "pollAPRS" /\ aprsState # APRS_VERIFIED) =>
       /\ rd' = <<>>
       /\ UNCHANGED <<aprsState, clientConnected, clientRx, timeoutStamp>>]_vars

\* pollAPRS has returned in APRS_CONNECTED with the transport connected, a
\* line waiting and the idle timer running.
C34_Witness ==
  /\ ret.op = "pollAPRS"
  /\ ret.pre = APRS_CONNECTED
  /\ aprsState = APRS_CONNECTED
  /\ clientConnected
  /\ clientRx # <<>>
  /\ timeoutStamp # 0


\* C35 (as claimed): for every byte stream the transport can deliver,
\* APRSreceiveData writes only at indices 0..maxSize-1 of rcvBuffer, the
\* terminating null included, and makes no read when no byte is available.
C35_ReceiveBufferBounds ==
  fmt.fn = "APRSreceiveData" =>
    /\ \A k \in DOMAIN fmt.out[1] : fmt.out[1][k] \in 0..(maxSize - 1)
    /\ fmt.out[2] = 0

====
